---- MODULE Spec2Model ----
(***************************************************************************)
(* The hypothesis-testing notebook (Hypothesis_Testing_II.ipynb) as a      *)
(* state machine: the kernel's global names are the state, every code cell *)
(* is one action, and cells may be run in any order, as a notebook kernel  *)
(* allows.  Floating point is modelled in fixed point: temperatures,       *)
(* standard deviations, errors and scores in thousandths, probabilities in *)
(* units of 1/PScale; IEEE not-a-number and the two infinities are kept as *)
(* values of their own.                                                    *)
(***************************************************************************)
EXTENDS Integers, Sequences, FiniteSets, TLC

\* ------------------------------------------------------------ bounds
\* Longest data file (rows of data/bodytemp.csv) the model enumerates.
MaxRows == 3

\* Temperatures (tenths of a degree) a male row may hold, and the one a
\* female row holds (female rows are filtered out by every summary cell).
Temps == {981, 982, 986, 991}
FemaleTemps == {986}

\* ------------------------------------------------------------ units
Milli == 10 * 100
PScale == 10000 * 10000
\* Scores are looked up on a grid of quarters.
Grid == Milli \div 4

\* The hypothesised population mean, 98.6, in thousandths.
Mu0 == 98600

\* ------------------------------------------------------------ floats
Fin(v) == [k |-> "fin", v |-> v]
NaN == [k |-> "nan", v |-> 0]
PosInf == [k |-> "inf", v |-> 1]
NegInf == [k |-> "inf", v |-> -1]
\* A name the kernel has not bound yet.
Undef == [k |-> "undef", v |-> 0]

Defined(x) == x.k # "undef"
IsFin(x) == x.k = "fin"

AbsInt(a) == IF a < 0 THEN -a ELSE a
SignInt(a) == IF a < 0 THEN -1 ELSE IF a > 0 THEN 1 ELSE 0

\* a / b rounded to the nearest integer, halves away from zero.
RoundDiv(a, b) ==
  SignInt(a) * SignInt(b) * ((2 * AbsInt(a) + AbsInt(b)) \div (2 * AbsInt(b)))

RECURSIVE SqrtSearch(_, _, _)
SqrtSearch(v, lo, hi) ==
  IF lo >= hi THEN lo
  ELSE LET mid == (lo + hi + 1) \div 2
       IN IF mid * mid <= v THEN SqrtSearch(v, mid, hi)
          ELSE SqrtSearch(v, lo, mid - 1)

\* The square root of v rounded to the nearest integer.
ISqrt(v) ==
  LET r == SqrtSearch(v, 0, 30000)
  IN IF v - r * r > r THEN r + 1 ELSE r

\* a - b on floats (both finite, or not a number).
FSub(a, b) ==
  IF IsFin(a) /\ IsFin(b) THEN Fin(a.v - b.v) ELSE NaN

\* A division that gives not-a-number for every zero divisor.
FDivNoInf(a, b) ==
  IF ~(IsFin(a) /\ IsFin(b)) THEN NaN
  ELSE IF b.v = 0 THEN NaN
  ELSE Fin(RoundDiv(a.v * Milli, b.v))

\* numpy's float64 division, in thousandths: x/0 is a signed infinity, 0/0
\* and anything with a not-a-number operand is not-a-number; numpy warns
\* and raises nothing.
FDiv(a, b) ==
  IF ~(IsFin(a) /\ IsFin(b)) THEN NaN
  ELSE IF b.v = 0
       THEN (IF a.v = 0 THEN NaN ELSE IF a.v > 0 THEN PosInf ELSE NegInf)
       ELSE Fin(RoundDiv(a.v * Milli, b.v))

\* np.sqrt(n) of a count, in thousandths.
NpSqrt(cnt) == Fin(ISqrt(cnt * Milli * Milli))

\* np.abs / abs on a float.
NpAbs(x) ==
  IF x.k = "inf" THEN PosInf
  ELSE IF IsFin(x) THEN Fin(AbsInt(x.v))
  ELSE x

FNeg(x) ==
  IF x.k = "inf" THEN [k |-> "inf", v |-> -x.v]
  ELSE IF IsFin(x) THEN Fin(-x.v)
  ELSE x

\* 2 * p on a probability.
FMul2(p) == IF IsFin(p) THEN Fin(2 * p.v) ELSE p

\* a <= b on floats; any comparison with not-a-number is false.
FLe(a, b) == IsFin(a) /\ IsFin(b) /\ a.v <= b.v

\* ------------------------------------------------------------ scipy.stats
\* Tabulated at 0, 0.25, ..., 8 in units of 1/PScale; a score beyond the
\* last entry takes the last entry.
NormPdfTable ==
  <<39894228, 38666812, 35206533, 30113743, 24197072, 18264909, 12951760,
    8627732, 5399097, 3173965, 1752830, 909356, 443185, 202905, 87268,
    35260, 13383, 4772, 1598, 503, 149, 41, 11, 3, 1, 0, 0, 0, 0, 0, 0, 0, 0>>

NormSfTable ==
  <<50000000, 40129367, 30853754, 22662735, 15865525, 10564977, 6680720,
    4005916, 2275013, 1222447, 620967, 297976, 134990, 57703, 23263, 8842,
    3167, 1069, 340, 102, 29, 8, 2, 0, 0, 0, 0, 0, 0, 0, 0, 0, 0>>

\* Row df of the Student-t survival function, df = 1 .. 5.
TSfTable ==
  << <<50000000, 42202087, 35241638, 29516724, 25000000, 21477671, 18716704,
       16524934, 14758362, 13312494, 12111894, 11101726, 10241638, 9501516,
       8858553, 8295232, 7797913, 7355844, 6960449, 6604810, 6283296,
       5991277, 5724915, 5481004, 5256846, 5050154, 4858979, 4681649,
       4516724, 4362952, 4219246, 4084655, 3958342>>,
     <<50000000, 41296117, 33333333, 26573936, 21132487, 16886691, 13619656,
       11111111, 9175171, 7667561, 6480586, 5535135, 4773298, 4152535,
       3641368, 3216285, 2859548, 2557626, 2300095, 2078839, 1887478,
       1720949, 1575200, 1446962, 1333574, 1232855, 1143008, 1062538, 990197,
       924935, 865866, 812237, 763404>>,
     <<50000000, 40936461, 32572398, 25385729, 19550111, 14996473, 11529193,
       8921271, 6966298, 5496905, 4385332, 3537112, 2883444, 2374477,
       1974052, 1655815, 1400423, 1193556, 1024521, 885254, 769622, 672913,
       591480, 522469, 463636, 413197, 369726, 332075, 299313, 270679,
       245549, 223408, 203829>>,
     <<50000000, 40745101, 32166498, 24747972, 18695048, 13971982, 10400000,
       7750811, 5805826, 4382259, 3338327, 2568722, 1997098, 1568787,
       1244808, 997354, 806504, 657904, 541128, 448545, 374522, 314860,
       266406, 226771, 194127, 167067, 144500, 125571, 109606, 96073, 84544,
       74677, 66195>>,
     <<50000000, 40626707, 31914944, 24351212, 18160873, 13330811, 9695184,
       7026118, 5096974, 3713846, 2724505, 2015511, 1504962, 1134794, 864222,
       664686, 516171, 404590, 319977, 255226, 205236, 166311, 135754,
       111578, 92307, 76836, 64333, 54162, 45837, 38985, 33313, 28593,
       24645>> >>

MinInt(a, b) == IF a <= b THEN a ELSE b

\* The table index of a non-negative score given in thousandths.
GridIndex(v) == MinInt(RoundDiv(v, Grid), Len(NormPdfTable) - 1) + 1

\* A survival function of a symmetric distribution from its table for x >= 0.
SfFrom(table, x) ==
  IF x.k = "inf" THEN (IF x.v > 0 THEN Fin(0) ELSE Fin(PScale))
  ELSE IF ~IsFin(x) THEN NaN
  ELSE IF x.v >= 0 THEN Fin(table[GridIndex(x.v)])
  ELSE Fin(PScale - table[GridIndex(-x.v)])

\* stats.t.sf(x, df): not-a-number unless df > 0.
TSf(x, df) ==
  IF df < 1 THEN NaN
  ELSE SfFrom(TSfTable[MinInt(df, Len(TSfTable))], x)

\* stats.norm.pdf(x).
NormPdf(x) ==
  IF x.k = "inf" THEN Fin(0)
  ELSE IF ~IsFin(x) THEN NaN
  ELSE Fin(NormPdfTable[GridIndex(AbsInt(x.v))])

\* The normal distribution's survival function, P(X >= x).
NormSf(x) == SfFrom(NormSfTable, x)

\* ------------------------------------------------------------ the data
\* A row of the file: <<temp in tenths, sex>>, sex 0 male and 1 female.
Rows == {<<t, 0>> : t \in Temps} \cup {<<t, 1>> : t \in FemaleTemps}
Files == UNION {[1..k -> Rows] : k \in 0..MaxRows}

NoFrame == [k |-> "undef", rows |-> <<>>]
Frame(rows) == [k |-> "frame", rows |-> rows]

IsMale(r) == r[2] = 0

\* body[body['sex'] == 0].temp, in thousandths.
MaleTemps(b) ==
  LET sel == SelectSeq(b.rows, IsMale)
  IN [i \in 1..Len(sel) |-> sel[i][1] * (Milli \div 10)]

RECURSIVE SumSeq(_)
SumSeq(xs) == IF xs = <<>> THEN 0 ELSE Head(xs) + SumSeq(Tail(xs))

\* The arithmetic mean of a non-empty column.
MeanOf(xs) == RoundDiv(SumSeq(xs), Len(xs))

\* The sample standard deviation (divisor n-1) of a column of two or more.
StdevOf(xs) ==
  LET mu == MeanOf(xs)
      ssd == SumSeq([i \in 1..Len(xs) |-> (xs[i] - mu) * (xs[i] - mu)])
  IN ISqrt(RoundDiv(ssd, Len(xs) - 1))

\* pandas' Series.mean(): not-a-number on an empty column.
PdMean(xs) == IF Len(xs) = 0 THEN NaN ELSE Fin(MeanOf(xs))

\* pandas' Series.std(): not-a-number on fewer than two values.
PdStd(xs) == IF Len(xs) < 2 THEN NaN ELSE Fin(StdevOf(xs))

\* alpha = 1-0.95
Alpha == Fin(PScale - 95 * (PScale \div 100))

\* ------------------------------------------------------------ the kernel
VARIABLES
  csv,      \* the rows of data/bodytemp.csv on disk
  body,     \* the data frame, once read
  n, m, s, err, alpha,       \* the summary cells' globals
  t_score, z_score, p_value, \* the test cells' globals
  out,      \* what each test cell last printed, and the conclusion drawn
  raised    \* the exception that ended the last cell run, or "none"

vars == <<csv, body, n, m, s, err, alpha, t_score, z_score, p_value, out, raised>>

\* The test cells: the two-sided t-test, the two-sided z-test, the
\* right-tailed t-test, and the left-sided variant the last cell describes.
Cells == {"TwoSidedT", "TwoSidedZ", "RightTailedT", "LeftTailedT"}

NoOutput ==
  [statistic |-> Undef, p_value |-> Undef, alpha_value |-> Undef, reject |-> FALSE]

Printed(c) == Defined(out[c].statistic)

\* The kernel after the import cell, with nothing else bound.
Init ==
  /\ csv \in Files
  /\ body = NoFrame
  /\ n = Undef /\ m = Undef /\ s = Undef /\ err = Undef /\ alpha = Undef
  /\ t_score = Undef /\ z_score = Undef /\ p_value = Undef
  /\ out = [c \in Cells |-> NoOutput]
  /\ raised = "none"

\* body = pd.read_csv('data/bodytemp.csv')
ReadCsv ==
  /\ body' = Frame(csv)
  /\ raised' = "none"
  /\ UNCHANGED <<csv, n, m, s, err, alpha, t_score, z_score, p_value, out>>

\* The first summary cell: pandas' len, mean and std; nothing is validated.
SummaryPandas ==
  IF body = NoFrame
  THEN /\ raised' = "NameError"
       /\ UNCHANGED <<csv, body, n, m, s, err, alpha, t_score, z_score, p_value, out>>
  ELSE LET xs == MaleTemps(body)
       IN /\ n' = Fin(Len(xs))
          /\ m' = PdMean(xs)
          /\ s' = PdStd(xs)
          /\ err' = FDiv(PdStd(xs), NpSqrt(Len(xs)))
          /\ alpha' = Alpha
          /\ raised' = "none"
          /\ UNCHANGED <<csv, body, t_score, z_score, p_value, out>>

\* The second summary cell: statistics.mean raises StatisticsError on an
\* empty column and statistics.stdev on fewer than two values; the names
\* assigned before the exception stay assigned.
SummaryStatistics ==
  IF body = NoFrame
  THEN /\ raised' = "NameError"
       /\ UNCHANGED <<csv, body, n, m, s, err, alpha, t_score, z_score, p_value, out>>
  ELSE LET xs == MaleTemps(body)
       IN /\ n' = Fin(Len(xs))
          /\ m' = IF Len(xs) = 0 THEN m ELSE Fin(MeanOf(xs))
          /\ s' = IF Len(xs) < 2 THEN s ELSE Fin(StdevOf(xs))
          /\ err' = IF Len(xs) < 2 THEN err
                    ELSE FDiv(Fin(StdevOf(xs)), NpSqrt(Len(xs)))
          /\ alpha' = IF Len(xs) < 2 THEN alpha ELSE Alpha
          /\ raised' = IF Len(xs) < 2 THEN "StatisticsError" ELSE "none"
          /\ UNCHANGED <<csv, body, t_score, z_score, p_value, out>>

\* (m - 98.6) / err
Score(m_, err_) == FDiv(FSub(m_, Fin(Mu0)), err_)

\* The two-sided t-test cell; H0 is rejected when p <= alpha.
TwoSidedT(m_, err_, n_, alpha_) ==
  LET t == Score(m_, err_)
      p == FMul2(TSf(NpAbs(t), n_.v - 1))
  IN [statistic |-> t, p_value |-> p, alpha_value |-> alpha_,
      reject |-> FLe(p, alpha_)]

\* A z-test cell that prints the p_value an earlier cell left behind.
TwoSidedZStale(m_, err_, n_, alpha_) ==
  LET z == Score(m_, err_)
      p == IF Defined(p_value) THEN p_value ELSE FMul2(NormPdf(NpAbs(z)))
  IN [statistic |-> z, p_value |-> p, alpha_value |-> alpha_,
      reject |-> FLe(p, alpha_)]

\* The two-sided z-test cell: twice the normal density at |z|.
TwoSidedZ(m_, err_, n_, alpha_) ==
  LET z == Score(m_, err_)
      p == FMul2(NormPdf(NpAbs(z)))
  IN [statistic |-> z, p_value |-> p, alpha_value |-> alpha_,
      reject |-> FLe(p, alpha_)]

\* The right-tailed t-test cell: the p-value is set against 1-alpha, and
\* the notebook rejects H0 on p = 0.9999998 against 0.95, that is when
\* p >= 1-alpha.
RightTailedT(m_, err_, n_, alpha_) ==
  LET t == Score(m_, err_)
      p == TSf(t, n_.v - 1)
      a == FSub(Fin(PScale), alpha_)
  IN [statistic |-> t, p_value |-> p, alpha_value |-> a,
      reject |-> FLe(a, p)]

\* The left-sided test as the notebook describes it: alpha instead of
\* 1-alpha and stats.t.sf(-t_score, n-1) instead of stats.t.sf(t_score, n-1).
LeftTailedT(m_, err_, n_, alpha_) ==
  LET t == Score(m_, err_)
      p == TSf(FNeg(t), n_.v - 1)
  IN [statistic |-> t, p_value |-> p, alpha_value |-> alpha_,
      reject |-> FLe(p, alpha_)]

\* What test cell c prints from the given globals.
Evaluate(c, m_, err_, n_, alpha_) ==
  CASE c = "TwoSidedT" -> TwoSidedT(m_, err_, n_, alpha_)
    [] c = "TwoSidedZ" -> TwoSidedZ(m_, err_, n_, alpha_)
    [] c = "RightTailedT" -> RightTailedT(m_, err_, n_, alpha_)
    [] c = "LeftTailedT" -> LeftTailedT(m_, err_, n_, alpha_)

\* A test cell's first statement reads m and err, and raises NameError when
\* a summary cell has not bound them; the cell's old output is replaced.
CanRun == Defined(m) /\ Defined(err) /\ Defined(n) /\ Defined(alpha)

NameErrorIn(c) ==
  /\ raised' = "NameError"
  /\ out' = [out EXCEPT ![c] = NoOutput]
  /\ UNCHANGED <<csv, body, n, m, s, err, alpha, t_score, z_score, p_value>>

\* A t-test cell: binds t_score and p_value and prints them.
RunTCell(c) ==
  IF ~CanRun THEN NameErrorIn(c)
  ELSE LET r == Evaluate(c, m, err, n, alpha)
       IN /\ t_score' = r.statistic
          /\ p_value' = r.p_value
          /\ out' = [out EXCEPT ![c] = r]
          /\ raised' = "none"
          /\ UNCHANGED <<csv, body, n, m, s, err, alpha, z_score>>

TwoSidedTTest == RunTCell("TwoSidedT")

RightTailedTTest == RunTCell("RightTailedT")

LeftTailedTTest == RunTCell("LeftTailedT")

\* The z-test cell: binds z_score and p_value and prints them.
TwoSidedZTest ==
  IF ~CanRun THEN NameErrorIn("TwoSidedZ")
  ELSE LET r == Evaluate("TwoSidedZ", m, err, n, alpha)
       IN /\ z_score' = r.statistic
          /\ p_value' = r.p_value
          /\ out' = [out EXCEPT ![("TwoSidedZ")] = r]
          /\ raised' = "none"
          /\ UNCHANGED <<csv, body, n, m, s, err, alpha, t_score>>

Next ==
  \/ ReadCsv
  \/ SummaryPandas
  \/ SummaryStatistics
  \/ TwoSidedTTest
  \/ TwoSidedZTest
  \/ RightTailedTTest
  \/ LeftTailedTTest

Spec == Init /\ [][Next]_vars

\* ------------------------------------------------------------ properties
Valid == Defined(n) /\ n.v > 1 /\ IsFin(s) /\ s.v >= 0 /\ Defined(alpha)

\* The sample has no spread and its mean is the hypothesised one.
DegenerateEqual == Valid /\ s = Fin(0) /\ m = Fin(Mu0)

\* The sample has no spread and its mean is not the hypothesised one.
DegenerateUnequal == Valid /\ s = Fin(0) /\ IsFin(m) /\ m.v # Mu0

FMin(a, b) == IF ~(IsFin(a) /\ IsFin(b)) THEN NaN ELSE Fin(MinInt(a.v, b.v))

TwoSidedCells == {"TwoSidedT", "TwoSidedZ"}

\* C1: in every test cell the decision is "reject" exactly when the
\* p-value is at most alpha itself, whatever the tail.
DecisionAgainstAlpha ==
  \A c \in Cells :
    Printed(c) /\ IsFin(out[c].statistic)
      => (out[c].reject <=> FLe(out[c].p_value, Alpha))

\* C2: for a valid sample (n > 1, stddev >= 0) every printed p-value is a
\* number between 0 and 1.
PValueInUnitInterval ==
  \A c \in Cells :
    Printed(c) /\ Valid
      => IsFin(out[c].p_value) /\ out[c].p_value.v >= 0
           /\ out[c].p_value.v <= PScale

\* C3: with n <= 1 no test cell produces a statistic, p-value or decision.
InvalidInputGivesNoResult ==
  \A c \in Cells : Defined(n) /\ n.v <= 1 => ~Printed(c)

\* C4: with zero spread and mean equal to the hypothesised mean the
\* statistic is 0, the p-value is 1 (two-sided) or 0.5 (one-sided), and H0
\* is not rejected.
DegenerateEqualResult ==
  \A c \in Cells :
    Printed(c) /\ DegenerateEqual
      => /\ out[c].statistic = Fin(0)
         /\ out[c].p_value =
              (IF c \in TwoSidedCells THEN Fin(PScale) ELSE Fin(PScale \div 2))
         /\ ~out[c].reject

\* The boundary p-value of cell c for an infinite statistic of sign sgn.
BoundaryP(c, sgn) ==
  CASE c \in TwoSidedCells -> Fin(0)
    [] c = "RightTailedT" -> (IF sgn > 0 THEN Fin(0) ELSE Fin(PScale))
    [] c = "LeftTailedT" -> (IF sgn > 0 THEN Fin(PScale) ELSE Fin(0))

\* C5: with zero spread and mean different from the hypothesised mean,
\* every test cell gives the statistic as the infinity of the sign of
\* mean - 98.6 and the boundary p-value (0 or 1) of its tail, and no cell
\* raises.
DegenerateUnequalPolicy ==
  \A c \in Cells :
    Printed(c) /\ DegenerateUnequal
      => /\ out[c].statistic = (IF m.v > Mu0 THEN PosInf ELSE NegInf)
         /\ out[c].p_value = BoundaryP(c, SignInt(m.v - Mu0))
         /\ raised = "none"

DegenerateUnequalReached ==
  /\ DegenerateUnequal
  /\ \A c \in Cells : Printed(c)
  /\ out["RightTailedT"].statistic = NegInf
  /\ out["RightTailedT"].p_value = Fin(PScale)

\* The two-sided p-values of a score x (thousandths) as the cells compute them.
TwoSidedTP(x, df) == FMul2(TSf(NpAbs(Fin(x)), df))
TwoSidedZP(x) == FMul2(NormPdf(NpAbs(Fin(x))))

\* Every step of the score grid away from 0, with either sign on either score.
GridSteps ==
  {<<a * i * Grid, b * (i + 1) * Grid>> :
     i \in 0..(Len(NormPdfTable) - 2), a \in {-1, 1}, b \in {-1, 1}}

\* C6: the two-sided p-value is twice the smaller of the right- and
\* left-tailed p-values of the same statistic under the same reference
\* distribution, and never grows with |statistic|.
TwoSidedIsTwiceMinTail ==
  /\ Printed("TwoSidedT") /\ IsFin(out["TwoSidedT"].statistic)
       => out["TwoSidedT"].p_value =
            FMul2(FMin(RightTailedT(m, err, n, alpha).p_value,
                       LeftTailedT(m, err, n, alpha).p_value))
  /\ Printed("TwoSidedZ") /\ IsFin(out["TwoSidedZ"].statistic)
       => out["TwoSidedZ"].p_value =
            FMul2(FMin(NormSf(out["TwoSidedZ"].statistic),
                       NormSf(FNeg(out["TwoSidedZ"].statistic))))
  /\ \A g \in GridSteps :
       /\ TwoSidedZP(g[2]).v <= TwoSidedZP(g[1]).v
       /\ \A df \in 1..Len(TSfTable) : TwoSidedTP(g[2], df).v <= TwoSidedTP(g[1], df).v

\* C7: the left-tailed test of the sample and the right-tailed test of
\* its mirror image about 98.6 give the same p-value and the same decision.
MirrorSymmetry ==
  Printed("LeftTailedT") /\ IsFin(out["LeftTailedT"].statistic)
    => LET r == RightTailedT(Fin(2 * Mu0 - m.v), err, n, alpha)
       IN /\ r.p_value = out["LeftTailedT"].p_value
          /\ r.reject = out["LeftTailedT"].reject

\* C8: the t and z cells print the same statistic, and the z cell's
\* p-value is twice the normal survival function at |statistic|.
ZTestUsesSurvival ==
  /\ Printed("TwoSidedT") /\ Printed("TwoSidedZ")
       => out["TwoSidedT"].statistic = out["TwoSidedZ"].statistic
  /\ Printed("TwoSidedZ") /\ IsFin(out["TwoSidedZ"].statistic)
       => out["TwoSidedZ"].p_value =
            FMul2(NormSf(NpAbs(out["TwoSidedZ"].statistic)))

\* What cell c prints when run alone on the file: read, summary, cell c.
Alone(c) ==
  LET xs == MaleTemps(Frame(csv))
  IN Evaluate(c, PdMean(xs), FDiv(PdStd(xs), NpSqrt(Len(xs))),
              Fin(Len(xs)), Alpha)

ZNotAboveT ==
  /\ Printed("TwoSidedT") /\ Printed("TwoSidedZ")
  /\ IsFin(out["TwoSidedT"].p_value) /\ IsFin(out["TwoSidedZ"].p_value)
  => out["TwoSidedZ"].p_value.v <= out["TwoSidedT"].p_value.v

====
